---------------------------- MODULE Spec2Model ----------------------------
(***************************************************************************)
(* Model of the spatiotemporal clustering stage                            *)
(* (src/02_spatiotemporal_clustering.py): the pairwise matrices, their     *)
(* normalisation, the two DBSCAN passes and the files cluster_records      *)
(* writes (specification Spec); and of the alert-index optimizer           *)
(* (src/04_mo_optimization.py): scaling, filtering, the sweep over alpha,  *)
(* the baseline entry and the final report (specification SpecOpt).        *)
(*                                                                         *)
(* Conventions.  Rows and matrix indices are 1-based here (0-based in the  *)
(* source); cluster labels keep the source's values (0, 1, ... and -1 for  *)
(* noise).  Observations lie on one meridian, r_lat counted in km, so the  *)
(* geodesic distance of two rows is |r_lat1 - r_lat2|; r_data is a day     *)
(* number.  A float that results from a division is a pair <<num, den>>    *)
(* with den > 0, and NaN (the float 0.0/0.0) is the pair <<0, 0>>.         *)
(***************************************************************************)
EXTENDS Integers, Sequences, FiniteSets

\* ------------------------------------------------------------------ bounds
MaxN == 4
FaultRows == 2

\* the observations a file may hold, as <<r_lat, r_data>>: three places 1 km
\* apart and three days
Sites == {<<0, 0>>, <<1, 0>>, <<2, 0>>, <<0, 5>>, <<1, 5>>, <<0, 40>>}
TimeLimits == {5, 30}
DistanceLimits == {1}
Faults == {"none", "no_file", "no_r_data", "no_r_lat", "no_r_long", "bad_date", "bad_coord"}

Rows == {[r_lat |-> s[1], r_long |-> 0, r_data |-> s[2]] : s \in Sites}

RECURSIVE SeqsUpTo(_, _)
SeqsUpTo(S, k) ==
    IF k = 0 THEN {<<>>}
    ELSE LET shorter == SeqsUpTo(S, k - 1)
         IN shorter \cup {Append(s, x) : s \in {t \in shorter : Len(t) = k - 1}, x \in S}

VARIABLES
    pc,                    \* position in cluster_records
    input_csv,             \* the input file: [fault, rows]
    time_limit,
    distance_limit,
    bound,                 \* the local names cluster_records has bound so far
    X,                     \* the data frame (sequence of rows)
    distance_matrix,
    time_matrix,
    norm_distance_matrix,
    norm_time_matrix,
    total_distance,
    labels1,
    labels2,
    files,                 \* the files written so far
    output_csv,            \* the content of the cluster output file
    printed                \* the error message printed by the except clauses

vars == <<pc, input_csv, time_limit, distance_limit, bound, X, distance_matrix,
          time_matrix, norm_distance_matrix, norm_time_matrix, total_distance,
          labels1, labels2, files, output_csv, printed>>

\* ------------------------------------------------------------ float values
NaN == <<0, 0>>
Float(k) == <<k, 1>>
IsNaN(a) == a[2] = 0

\* a / b for two non-negative floats holding integers, as numpy divides
\* float64 scalars: 0.0 / 0.0 is nan (a warning, no exception).
TrueDivide(a, b) == IF b = 0 THEN NaN ELSE <<a, b>>

\* np.add on two entries
Add(a, b) == IF IsNaN(a) \/ IsNaN(b) THEN NaN ELSE <<a[1] * b[2] + b[1] * a[2], a[2] * b[2]>>

\* comparisons with an integer; every comparison with nan is False
LessEq(a, k) == ~IsNaN(a) /\ a[1] <= k * a[2]
GreaterEq(a, k) == ~IsNaN(a) /\ a[1] >= k * a[2]

Abs(k) == IF k < 0 THEN -k ELSE k

\* matrix.shape[0]; a matrix is the sequence of its rows
Shape0(matrix) == Len(matrix)

RECURSIVE SetMax(_)
SetMax(S) ==
    LET x == CHOOSE y \in S : TRUE
    IN IF S = {x} THEN x
       ELSE LET m == SetMax(S \ {x}) IN IF x > m THEN x ELSE m


\* ------------------------------------------------- pairwise raw matrices
\* geopy's geodesic(...).km of two rows on one meridian
Geodesic(point1, point2) == Abs(point1.r_lat - point2.r_lat)

\* abs((date1 - date2).days)
DeltaDays(date1, date2) == Abs(date1.r_data - date2.r_data)

within_distance_limit_strict(point1, point2, limit) ==
    LET distance == Geodesic(point1, point2)
    IN IF distance < limit THEN distance ELSE -1

within_distance_limit(point1, point2, limit) ==
    LET distance == Geodesic(point1, point2)
    IN IF distance <= limit THEN distance ELSE -1

within_time_limit_signed(date1, date2, limit) ==
    LET delta == date1.r_data - date2.r_data
    IN IF delta <= limit THEN delta ELSE -1

within_time_limit(date1, date2, limit) ==
    LET delta == DeltaDays(date1, date2)
    IN IF delta <= limit THEN delta ELSE -1

\* The double loop of calculate_dist_time: np.zeros, then for i < j the entry
\* [i][j] is the gated value and [j][i] is copied from it.
calculate_dist_time(frame, tl, dl) ==
    LET n == Len(frame)
        dist == [i \in 1..n |-> [j \in 1..n |->
                    IF i < j THEN within_distance_limit(frame[i], frame[j], dl)
                    ELSE IF i > j THEN within_distance_limit(frame[j], frame[i], dl)
                    ELSE 0]]
        time == [i \in 1..n |-> [j \in 1..n |->
                    IF i < j THEN within_time_limit(frame[i], frame[j], tl)
                    ELSE IF i > j THEN within_time_limit(frame[j], frame[i], tl)
                    ELSE 0]]
    IN <<dist, time>>

\* ----------------------------------------------------------- normalisation
\* matrix[matrix >= 0]: the entries the boolean mask selects, diagonal included
NonNegative(matrix) ==
    {v \in UNION {{matrix[i][j] : j \in 1..Len(matrix)} : i \in 1..Len(matrix)} : v >= 0}

\* np.max raises ValueError on an empty selection
MaxRaises(matrix) == NonNegative(matrix) = {}

\* the value written for a pair outside the limit
Sentinel == 99999

\* np.zeros on the diagonal; the loop body for an off-diagonal entry
normalized_entry(matrix, i, j, max) ==
    IF i = j THEN Float(0)
    ELSE IF matrix[i][j] < 0 THEN Float(Sentinel)
    ELSE TrueDivide(matrix[i][j], max)

calculate_normalized_matrices(dm, tm) ==
    LET n == Shape0(dm)
        max_dist == SetMax(NonNegative(dm))
        max_time == SetMax(NonNegative(tm))
    IN <<[i \in 1..n |-> [j \in 1..n |-> normalized_entry(dm, i, j, max_dist)]],
         [i \in 1..n |-> [j \in 1..n |-> normalized_entry(tm, i, j, max_time)]]>>

\* np.add(norm_distance_matrix, norm_time_matrix)
np_add(a, b) == [i \in 1..Len(a) |-> [j \in 1..Len(a) |-> Add(a[i][j], b[i][j])]]

\* ------------------------------------------------------------------ DBSCAN
eps_beyond_sentinel == 2 * Sentinel + 2
eps == 500

\* sklearn validates the precomputed matrix: any nan raises ValueError
HasNaN(D) == \E i, j \in 1..Len(D) : IsNaN(D[i][j])

\* radius_neighbors: the eps-neighbourhood of every point, the point itself
\* included (distance <= eps)
Neighborhoods(D, radius) ==
    LET n == Shape0(D)
    IN [i \in 1..n |-> {j \in 1..n : LessEq(D[i][j], radius)}]

\* core samples: the points whose neighbourhood holds min_samples points
CoreSamples(neighborhoods, min_samples) ==
    {i \in DOMAIN neighborhoods : Cardinality(neighborhoods[i]) >= min_samples}

RECURSIVE Ascending(_)
Ascending(S) ==
    IF S = {} THEN <<>>
    ELSE LET m == SetMax(S) IN Append(Ascending(S \ {m}), m)

\* dbscan_inner, the depth-first expansion of one cluster from point i
RECURSIVE Expand(_, _, _, _, _, _)
Expand(neighborhoods, core, labels, stack, label_num, i) ==
    LET fresh == labels[i] = -1
        labelled == IF fresh THEN [labels EXCEPT ![i] = label_num] ELSE labels
        pushed == IF fresh /\ i \in core
                  THEN stack \o Ascending({v \in neighborhoods[i] : labelled[v] = -1})
                  ELSE stack
    IN IF pushed = <<>> THEN labelled
       ELSE Expand(neighborhoods, core, labelled, SubSeq(pushed, 1, Len(pushed) - 1),
                   label_num, pushed[Len(pushed)])

\* dbscan_inner, the loop over the points in index order
RECURSIVE Sweep(_, _, _, _, _)
Sweep(neighborhoods, core, labels, label_num, i) ==
    IF i > Len(labels) THEN labels
    ELSE IF labels[i] # -1 \/ i \notin core
         THEN Sweep(neighborhoods, core, labels, label_num, i + 1)
         ELSE Sweep(neighborhoods, core,
                    Expand(neighborhoods, core, labels, <<>>, label_num, i),
                    label_num + 1, i + 1)

\* DBSCAN(eps=radius, min_samples, metric='precomputed').fit_predict(D)
fit_predict(D, radius, min_samples) ==
    LET neighborhoods == Neighborhoods(D, radius)
        core == CoreSamples(neighborhoods, min_samples)
    IN Sweep(neighborhoods, core, [i \in DOMAIN neighborhoods |-> -1], 0, 1)

\* dbs1.fit_predict(total_distance)
fit_predict_cluster1_min2(D) == fit_predict(D, eps, 2)
fit_predict_cluster1(D) == fit_predict(D, eps, 1)

\* dbs2.fit_predict(total_distance)
fit_predict_cluster2_min3(D) == fit_predict(D, eps, 3)
fit_predict_cluster2_eps1(D) == fit_predict(D, 1, 2)
fit_predict_cluster2(D) == fit_predict(D, eps, 2)

\* ------------------------------------------------- the optimizer's state
\* (src/04_mo_optimization.py, the script under __main__)
VARIABLES
    opc,                        \* position in the script
    feature_csv,                \* the cluster-feature file: [fault, rows]
    df_original,
    df_standardized,
    df_standardized_filtered,
    solution,                   \* the key of the next results entry
    result,                     \* what the last minimize call returned
    results,                    \* the dict, keys 1, 2, ... in insertion order
    calls,                      \* the minimize calls made so far
    written,                    \* the files the script has written
    report,                     \* the lines of the final report
    error                       \* the uncaught exception that ended the script

ovars == <<opc, feature_csv, df_original, df_standardized, df_standardized_filtered,
           solution, result, results, calls, written, report, error>>

\* None, for a field that holds a vector or a value otherwise
None == <<>>

\* result, before the loop has bound it
Unbound == [success |-> FALSE, x |-> None, fun |-> None, message |-> ""]

\* the optimizer script is not running
OptimizerIdle ==
    /\ opc = "idle"
    /\ feature_csv = [fault |-> "none", rows |-> <<>>]
    /\ df_original = <<>>
    /\ df_standardized = <<>>
    /\ df_standardized_filtered = <<>>
    /\ solution = 1
    /\ result = Unbound
    /\ results = <<>>
    /\ calls = <<>>
    /\ written = {}
    /\ report = <<>>
    /\ error = None

\* ----------------------------------------------------------------- actions
EmptyMatrix == <<>>

Init ==
    /\ pc = "start"
    /\ time_limit \in TimeLimits
    /\ distance_limit \in DistanceLimits
    /\ input_csv \in [fault : Faults, rows : SeqsUpTo(Rows, MaxN)]
    /\ input_csv.fault # "none" => Len(input_csv.rows) <= FaultRows
    /\ input_csv.fault \in {"bad_date", "bad_coord"} => Len(input_csv.rows) >= 1
    /\ bound = {}
    /\ X = <<>>
    /\ distance_matrix = EmptyMatrix
    /\ time_matrix = EmptyMatrix
    /\ norm_distance_matrix = EmptyMatrix
    /\ norm_time_matrix = EmptyMatrix
    /\ total_distance = EmptyMatrix
    /\ labels1 = <<>>
    /\ labels2 = <<>>
    /\ files = {}
    /\ output_csv = <<>>
    /\ printed = "none"
    /\ OptimizerIdle

\* an exception leaves the try block: the except clause prints and the
\* function returns
Abort(message) ==
    /\ pc' = "done"
    /\ printed' = message

\* lines 90-94: pd.read_csv, copy, parse the r_data column
ReadInput ==
    /\ pc = "start"
    /\ IF input_csv.fault = "no_file"
       THEN Abort("file_not_found") /\ UNCHANGED <<bound, X>>
       ELSE IF input_csv.fault \in {"no_r_data", "bad_date"}
       THEN Abort("error") /\ bound' = bound \cup {"X"} /\ X' = input_csv.rows
       ELSE /\ pc' = "loaded"
            /\ bound' = bound \cup {"X"}
            /\ X' = input_csv.rows
            /\ UNCHANGED printed
    /\ UNCHANGED <<input_csv, time_limit, distance_limit, distance_matrix, time_matrix,
                   norm_distance_matrix, norm_time_matrix, total_distance,
                   labels1, labels2, files, output_csv>>
    /\ UNCHANGED ovars


\* lines 98-106: calculate_dist_time, then the two raw matrices are saved.
\* The row lookups of within_distance_limit raise at the first pair when a
\* coordinate column is missing or a coordinate is no number.
BuildMatrices ==
    /\ pc = "loaded"
    /\ IF Len(X) >= 2 /\ input_csv.fault \in {"no_r_lat", "no_r_long", "bad_coord"}
       THEN Abort("error") /\ UNCHANGED <<bound, distance_matrix, time_matrix, files>>
       ELSE LET raw == calculate_dist_time(X, time_limit, distance_limit)
            IN /\ pc' = "saved_raw"
               /\ distance_matrix' = raw[1]
               /\ time_matrix' = raw[2]
               /\ bound' = bound \cup {"distance_matrix", "time_matrix"}
               /\ files' = files \cup {"distance_matrix", "time_matrix"}
               /\ UNCHANGED printed
    /\ UNCHANGED <<input_csv, time_limit, distance_limit, X, norm_distance_matrix,
                   norm_time_matrix, total_distance, labels1, labels2, output_csv>>
    /\ UNCHANGED ovars


\* lines 109-117: calculate_normalized_matrices, np.add, then the total
\* matrix is saved
NormalizeAndCombine ==
    /\ pc = "saved_raw"
    /\ IF MaxRaises(distance_matrix) \/ MaxRaises(time_matrix)
       THEN Abort("error")
            /\ UNCHANGED <<bound, norm_distance_matrix, norm_time_matrix,
                           total_distance, files>>
       ELSE LET norm == calculate_normalized_matrices(distance_matrix, time_matrix)
            IN /\ pc' = "saved_total"
               /\ norm_distance_matrix' = norm[1]
               /\ norm_time_matrix' = norm[2]
               /\ total_distance' = np_add(norm[1], norm[2])
               /\ bound' = bound \cup {"norm_distance_matrix", "norm_time_matrix",
                                       "total_distance"}
               /\ files' = files \cup {"total_distance"}
               /\ UNCHANGED printed
    /\ UNCHANGED <<input_csv, time_limit, distance_limit, X, distance_matrix, time_matrix,
                   labels1, labels2, output_csv>>
    /\ UNCHANGED ovars


\* lines 120-127: the two DBSCAN passes over total_distance; the first
\* fit_predict raises when the matrix holds a nan
RunDBSCAN ==
    /\ pc = "saved_total"
    /\ IF HasNaN(total_distance)
       THEN Abort("error") /\ UNCHANGED <<bound, labels1, labels2>>
       ELSE /\ pc' = "clustered"
            /\ labels1' = fit_predict_cluster1(total_distance)
            /\ labels2' = fit_predict_cluster2(total_distance)
            /\ bound' = bound \cup {"Cluster1", "Cluster2"}
            /\ UNCHANGED printed
    /\ UNCHANGED <<input_csv, time_limit, distance_limit, X, distance_matrix, time_matrix,
                   norm_distance_matrix, norm_time_matrix, total_distance,
                   files, output_csv>>
    /\ UNCHANGED ovars


\* lines 130-131
SaveOutput ==
    /\ pc = "clustered"
    /\ pc' = "done"
    /\ files' = files \cup {"output_csv"}
    /\ output_csv' = [Cluster1 |-> labels1, Cluster2 |-> labels2]
    /\ UNCHANGED <<input_csv, time_limit, distance_limit, bound, X, distance_matrix,
                   time_matrix, norm_distance_matrix, norm_time_matrix, total_distance,
                   labels1, labels2, printed>>
    /\ UNCHANGED ovars


Next ==
    \/ ReadInput
    \/ BuildMatrices
    \/ NormalizeAndCombine
    \/ RunDBSCAN
    \/ SaveOutput

Spec == Init /\ [][Next]_<<vars, ovars>>


\* ------------------------------------------------------- what the claims use
N == Len(X)

\* two observations are directly reachable: within both limits, judged on
\* the input rows
DirectlyReachable(i, j) ==
    /\ Geodesic(X[i], X[j]) <= distance_limit
    /\ DeltaDays(X[i], X[j]) <= time_limit

\* the observations joined to those of S by a chain of directly reachable pairs
RECURSIVE Chained(_)
Chained(S) ==
    LET T == S \cup {j \in 1..N : \E i \in S : DirectlyReachable(i, j)}
    IN IF T = S THEN S ELSE Chained(T)

Isolated(i) == \A j \in 1..N : DirectlyReachable(i, j) => j = i

Gated(entry, raw, limit) ==
    IF raw <= limit THEN entry = raw /\ 0 <= entry /\ entry <= limit
    ELSE entry = -1

Between(a, lo, hi) == GreaterEq(a, lo) /\ LessEq(a, hi)

\* every off-diagonal entry of a raw matrix is the sentinel -1
AllOutOfRange(matrix) ==
    \A i, j \in 1..Len(matrix) : i # j => matrix[i][j] = -1

\* C1: the raw spatial and temporal matrices are symmetric with a zero
\* diagonal, and an off-diagonal entry is the pair's raw value when that
\* value is <= the limit (so in [0, limit]) and -1 when it exceeds the limit.
C1_RawMatrices ==
    "distance_matrix" \in bound =>
        /\ Len(distance_matrix) = N /\ Len(time_matrix) = N
        /\ \A i \in 1..N : Len(distance_matrix[i]) = N /\ Len(time_matrix[i]) = N
        /\ \A i, j \in 1..N :
            /\ distance_matrix[i][j] = distance_matrix[j][i]
            /\ time_matrix[i][j] = time_matrix[j][i]
            /\ i = j => distance_matrix[i][j] = 0 /\ time_matrix[i][j] = 0
            /\ i # j =>
                /\ Gated(distance_matrix[i][j], Geodesic(X[i], X[j]), distance_limit)
                /\ Gated(time_matrix[i][j], DeltaDays(X[i], X[j]), time_limit)

C1_Witness ==
    /\ "distance_matrix" \in bound
    /\ \E i, j, k, l \in 1..N :
        /\ i # j /\ k # l
        /\ distance_matrix[i][j] = distance_limit
        /\ time_matrix[i][j] = time_limit
        /\ distance_matrix[k][l] = -1
        /\ time_matrix[k][l] = -1

\* C2: a pair out of range on either axis has a combined entry >= 99999 and
\* is not within eps of each other, whatever the other axis holds.
C2_OutOfRangeNeverReachable ==
    "total_distance" \in bound =>
        \A i, j \in 1..N :
            (i # j /\ (Geodesic(X[i], X[j]) > distance_limit
                       \/ DeltaDays(X[i], X[j]) > time_limit)) =>
                /\ GreaterEq(total_distance[i][j], Sentinel)
                /\ j \notin Neighborhoods(total_distance, eps)[i]

\* C3: with N >= 2, a pair in range on both axes has both normalized values
\* in [0,1] and a combined entry in [0,2]; every combined entry is in [0,2]
\* or >= 99999.
C3_NormalizedRanges ==
    ("total_distance" \in bound /\ N >= 2) =>
        \A i, j \in 1..N :
            /\ (distance_matrix[i][j] >= 0 /\ time_matrix[i][j] >= 0) =>
                /\ Between(norm_distance_matrix[i][j], 0, 1)
                /\ Between(norm_time_matrix[i][j], 0, 1)
                /\ Between(total_distance[i][j], 0, 2)
            /\ \/ Between(total_distance[i][j], 0, 2)
               \/ GreaterEq(total_distance[i][j], Sentinel)

\* C4: when an axis has no in-range pair, normalization is a fatal error:
\* no normalized matrix is returned, no clustering is run, no nan is produced.
C4_DegenerateAxisIsFatal ==
    ("distance_matrix" \in bound /\ N >= 2
        /\ (AllOutOfRange(distance_matrix) \/ AllOutOfRange(time_matrix))) =>
        /\ "norm_distance_matrix" \notin bound
        /\ "total_distance" \notin bound
        /\ "Cluster1" \notin bound
        /\ "total_distance" \notin files
        /\ pc = "done" => printed = "error"

C8_PassesAgree ==
    "Cluster2" \in bound =>
        \A i, j \in 1..N :
            (labels2[i] # -1 /\ labels2[j] # -1) =>
                ((labels2[i] = labels2[j]) <=> (labels1[i] = labels1[j]))

C8_Witness ==
    /\ "Cluster2" \in bound
    /\ \E i, j, k \in 1..N :
        /\ i # j
        /\ labels2[i] # -1 /\ labels2[j] # -1 /\ labels2[k] # -1
        /\ labels2[i] = labels2[j] /\ labels1[i] = labels1[j]
        /\ labels2[i] # labels2[k] /\ labels1[i] # labels1[k]

\* C9: three observations at the same coordinates on day 0, 5 and 40 with
\* time_limit 30 and distance_limit 1: the run completes and writes an output
\* where day 0 and day 5 share a Cluster1 label, day 40 has another, day 40 has
\* Cluster2 = -1 and day 0 and day 5 share a non-negative Cluster2 label.
ExampleScenario ==
    /\ input_csv.fault = "none"
    /\ time_limit = 30
    /\ distance_limit = 1
    /\ input_csv.rows = <<[r_lat |-> 0, r_long |-> 0, r_data |-> 0],
                          [r_lat |-> 0, r_long |-> 0, r_data |-> 5],
                          [r_lat |-> 0, r_long |-> 0, r_data |-> 40]>>

C9_ExampleScenario ==
    (ExampleScenario /\ pc = "done") =>
        /\ printed = "none"
        /\ "output_csv" \in files
        /\ output_csv.Cluster1[1] = output_csv.Cluster1[2]
        /\ output_csv.Cluster1[3] # output_csv.Cluster1[1]
        /\ output_csv.Cluster2[3] = -1
        /\ output_csv.Cluster2[1] = output_csv.Cluster2[2]
        /\ output_csv.Cluster2[1] >= 0

\* C10: a run on an input with a missing r_lat / r_long / r_data column, an
\* unparseable date or coordinate, or no observation ends with the error
\* reported and none of the matrix files or the cluster output written.
InputError ==
    \/ input_csv.fault \in {"no_r_lat", "no_r_long", "no_r_data", "bad_date", "bad_coord"}
    \/ input_csv.fault = "none" /\ input_csv.rows = <<>>

C10_InputErrorsWriteNothing ==
    (InputError /\ pc = "done") =>
        /\ printed # "none"
        /\ files = {}


\* the exchanges of two neighbouring rows.  Every permutation is a product
\* of these, and every order of the rows is itself an input, so agreement
\* with each neighbouring order is agreement with every order.
NeighbourExchanges(n) ==
    {[i \in 1..n |-> IF i = k THEN k + 1 ELSE IF i = k + 1 THEN k ELSE i] : k \in 1..(n - 1)}

\* the frame whose row i is row f[i] of the given frame
Permuted(frame, f) == [i \in 1..Len(frame) |-> frame[f[i]]]

\* total_distance as cluster_records computes it from a frame
TotalOf(frame) ==
    LET raw == calculate_dist_time(frame, time_limit, distance_limit)
        norm == calculate_normalized_matrices(raw[1], raw[2])
    IN np_add(norm[1], norm[2])

SameGrouping(labels, permuted_labels, f) ==
    \A i, j \in DOMAIN permuted_labels :
        /\ (permuted_labels[i] = permuted_labels[j]) <=> (labels[f[i]] = labels[f[j]])
        /\ (permuted_labels[i] = -1) <=> (labels[f[i]] = -1)

\* C18: for every permutation of the same observations with the same limits
\* the run ends the same way, the Cluster1 partition is the same and the
\* Cluster2 partition and its noise set are the same; only label names differ.
C18_OrderDoesNotChangeGrouping ==
    ("total_distance" \in bound /\ pc # "done") =>
        \A f \in NeighbourExchanges(N) :
            LET total == TotalOf(Permuted(X, f))
            IN /\ HasNaN(total) <=> HasNaN(total_distance)
               /\ "Cluster1" \in bound =>
                    /\ SameGrouping(labels1, fit_predict_cluster1(total), f)
                    /\ SameGrouping(labels2, fit_predict_cluster2(total), f)

C18_Witness ==
    /\ "Cluster1" \in bound /\ pc # "done"
    /\ \E i, j \in 1..N : labels2[i] = -1 /\ labels2[j] # -1
    /\ \E f \in NeighbourExchanges(N) :
        LET total == TotalOf(Permuted(X, f))
        IN /\ fit_predict_cluster1(total) # [i \in 1..N |-> labels1[f[i]]]
           /\ SameGrouping(labels1, fit_predict_cluster1(total), f)

\* ======================================================================
\* The alert-index optimizer (src/04_mo_optimization.py)
\*
\* Conventions.  A cluster row carries the columns whose values the script
\* looks at outside the solver: Cluster1, Cluster2, confirmado and morto,
\* and its index label; the other base columns are present or absent as the
\* file says and their values stay inside the solver.  A z-scored value
\* (x - mean) / std of a column of n values is the pair <<num, var>> with
\* num = n*x - sum(x) and var = n*sum(x*x) - sum(x)^2, standing for
\* num / sqrt(var), and for 0 when var = 0 (the scaler divides by 1 there).
\* A weight vector is counted in sevenths, alpha in tenths.  An objective
\* value is the term that computes it: the function applied and its
\* arguments.  A Python value whose type matters is <<type, value>>.
\* ======================================================================
MaxRows == 3
MaxFailures == 1

alert_cols == <<"num_reg", "intervalo", "freq_num_reg", "freq_a_quant", "extensao",
                "perc_mortos", "morto">>
base_col == {"morto", "vivo", "a_quant", "intervalo", "num_reg", "confirmado",
             "freq_num_reg", "freq_morto", "freq_vivo", "freq_a_quant",
             "perc_mortos", "perc_vivos", "perc_agressivo", "perc_doente",
             "perc_estranho", "perc_normal", "extensao"}
\* the columns the script reads by name
ExpectedColumns == base_col \cup {"Cluster1", "Cluster2"}

num_weights == Len(alert_cols)
NumAlphas == 11
\* np.arange(0, 1.1, 0.1), in tenths
alphas == [k \in 1..NumAlphas |-> k - 1]

\* the rows a cluster-feature file may hold: a confirmed cluster with deaths
\* on two rows (two geocodes, the second with no death), an unconfirmed
\* cluster, a noise row and a confirmed cluster with no death
Clusters ==
    { [Cluster1 |-> 0, Cluster2 |-> 0, confirmado |-> 1, morto |-> 2],
      [Cluster1 |-> 0, Cluster2 |-> 0, confirmado |-> 1, morto |-> 0],
      [Cluster1 |-> 1, Cluster2 |-> 1, confirmado |-> 0, morto |-> 1],
      [Cluster1 |-> 2, Cluster2 |-> -1, confirmado |-> 1, morto |-> 0],
      [Cluster1 |-> 3, Cluster2 |-> 2, confirmado |-> 2, morto |-> 0] }

FeatureFiles ==
    {f \in [exists : BOOLEAN, missing : {"none"} \cup ExpectedColumns,
            rows : SeqsUpTo(Clusters, MaxRows)] :
        (~f.exists \/ f.missing # "none") =>
            (Len(f.rows) <= FaultRows /\ (~f.exists => f.missing = "none"))}

RECURSIVE Sum(_)
Sum(s) == IF s = <<>> THEN 0 ELSE Head(s) + Sum(Tail(s))

Column(df, name) == [i \in DOMAIN df |-> df[i][name]]

\* pd.read_csv(input_csv, index_col=0): the rows under the index labels the
\* characterization stage wrote, 0, 1, ...
read_csv(file) ==
    [i \in DOMAIN file.rows |->
        [index |-> i - 1, Cluster1 |-> file.rows[i].Cluster1,
         Cluster2 |-> file.rows[i].Cluster2,
         confirmado |-> file.rows[i].confirmado, morto |-> file.rows[i].morto]]

\* StandardScaler().fit_transform on one column
fit_transform_standard(xs) ==
    LET n == Len(xs)
        total == Sum(xs)
        squares == Sum([i \in DOMAIN xs |-> xs[i] * xs[i]])
    IN [i \in DOMAIN xs |-> <<n * xs[i] - total, n * squares - total * total>>]

\* the standardized frame of normalize_and_standardize_data; the normalized
\* frame it also returns is only written to its file
normalize_and_standardize_data(df) ==
    LET confirmado == fit_transform_standard(Column(df, "confirmado"))
        morto == fit_transform_standard(Column(df, "morto"))
    IN [i \in DOMAIN df |->
            [df[i] EXCEPT !.confirmado = confirmado[i], !.morto = morto[i]]]

RECURSIVE boolean_index(_, _)
\* df[mask]
boolean_index(df, mask) ==
    IF df = <<>> THEN <<>>
    ELSE (IF Head(mask) THEN <<Head(df)>> ELSE <<>>) \o boolean_index(Tail(df), Tail(mask))

\* df['Cluster2'] != -1
not_noise_mask(df) == [i \in DOMAIN df |-> df[i].Cluster2 # -1]

confirmed_mask_on_scaled(filtered_df_original, filtered_df_standardized) ==
    [i \in DOMAIN filtered_df_standardized |-> filtered_df_standardized[i].confirmado[1] # 0]

\* filtered_df_original['confirmado'] != 0
confirmed_mask(filtered_df_original, filtered_df_standardized) ==
    [i \in DOMAIN filtered_df_original |-> filtered_df_original[i].confirmado # 0]

RECURSIVE drop_duplicates(_, _)
\* df.drop_duplicates(subset=['Cluster1']): keep='first'
drop_duplicates(df, seen) ==
    IF df = <<>> THEN <<>>
    ELSE IF Head(df).Cluster1 \in seen THEN drop_duplicates(Tail(df), seen)
    ELSE <<Head(df)>> \o drop_duplicates(Tail(df), seen \cup {Head(df).Cluster1})

\* lines 152-157
filter_frames(original, standardized) ==
    LET filtered_df_original == boolean_index(original, not_noise_mask(original))
        filtered_df_standardized == boolean_index(standardized, not_noise_mask(standardized))
        df_standardized_confirmed ==
            boolean_index(filtered_df_standardized,
                          confirmed_mask(filtered_df_original, filtered_df_standardized))
    IN drop_duplicates(df_standardized_confirmed, {})

initial_weights_warm_start(last) ==
    IF last.x = None THEN [k \in 1..num_weights |-> 1] ELSE last.x

\* np.ones(num_weights) / num_weights, built anew in every iteration
initial_weights(last) == [k \in 1..num_weights |-> 1]

\* np.average(alert_index, weights=data['morto']) and np.var(alert_index),
\* alert_index being np.dot(data[alert_cols], weights)
calculate_objective_values(weights, data) ==
    << <<"average", Column(data, "index"), weights, Column(data, "morto")>>,
       <<"var", Column(data, "index"), weights>> >>

\* -(alpha*f1 - (1-alpha)*f2)
objective_function(weights, data, alpha) ==
    <<"minus", alpha, calculate_objective_values(weights, data)>>

\* np.average raises ZeroDivisionError when the averaging weights sum to
\* 0.0.  They do when there is no row or every one is exactly 0.0; when
\* they only cancel, the float sum is 0.0 or a rounding residue.
AveragingWeightsCancel(data) == Sum([i \in DOMAIN data |-> data[i].morto[1]]) = 0
AveragingWeightsAllZero(data) == \A i \in DOMAIN data : data[i].morto[1] = 0

\* what scipy's minimize may return for a call: a feasible point with
\* success, or the starting point with the reason it stopped
OptimizeResults(x0, data, alpha) ==
    LET optimum == [k \in 1..num_weights |-> IF k = (alpha % num_weights) + 1 THEN num_weights ELSE 0]
    IN { [success |-> TRUE, x |-> optimum, fun |-> objective_function(optimum, data, alpha),
          message |-> "Optimization terminated successfully"],
         [success |-> FALSE, x |-> x0, fun |-> objective_function(x0, data, alpha),
          message |-> "Positive directional derivative for linesearch"] }

store_result_if_converged(dict, key, res, objectives) ==
    IF ~res.success THEN dict
    ELSE Append(dict, [success |-> <<"bool", res.success>>,
                       weights |-> res.x,
                       objective1 |-> objectives[1],
                       objective2 |-> objectives[2],
                       objective_value |-> res.fun,
                       message |-> res.message])

\* lines 201-208
store_result(dict, key, res, objectives) ==
    Append(dict, [success |-> <<"bool", res.success>>,
                  weights |-> IF res.success THEN res.x ELSE None,
                  objective1 |-> objectives[1],
                  objective2 |-> objectives[2],
                  objective_value |-> IF res.success THEN res.fun ELSE None,
                  message |-> res.message])

store_baseline_as_solve(dict, key, weights, objectives) ==
    Append(dict, [success |-> <<"bool", TRUE>>,
                  weights |-> weights,
                  objective1 |-> objectives[1],
                  objective2 |-> objectives[2],
                  objective_value |-> <<"half_difference", objectives>>,
                  message |-> ""])

\* lines 229-235
store_baseline(dict, key, weights, objectives) ==
    Append(dict, [success |-> <<"str", "True">>,
                  weights |-> weights,
                  objective1 |-> objectives[1],
                  objective2 |-> objectives[2],
                  objective_value |-> <<"half_difference", objectives>>])

RECURSIVE report_lines(_, _)
\* lines 257-267: one line per entry, until an entry's weights cannot be
\* subscripted
report_lines(dict, key) ==
    IF key > Len(dict) THEN <<>>
    ELSE IF dict[key].weights = None THEN <<<<"TypeError">>>>
    ELSE <<<<"row", key, dict[key].weights, dict[key].objective1, dict[key].objective2>>>>
         \o report_lines(dict, key + 1)

ClusteringIdle ==
    /\ pc = "idle"
    /\ time_limit = 30
    /\ distance_limit = 1
    /\ input_csv = [fault |-> "none", rows |-> <<>>]
    /\ bound = {}
    /\ X = <<>>
    /\ distance_matrix = EmptyMatrix
    /\ time_matrix = EmptyMatrix
    /\ norm_distance_matrix = EmptyMatrix
    /\ norm_time_matrix = EmptyMatrix
    /\ total_distance = EmptyMatrix
    /\ labels1 = <<>>
    /\ labels2 = <<>>
    /\ files = {}
    /\ output_csv = <<>>
    /\ printed = "none"

InitOpt ==
    /\ ClusteringIdle
    /\ opc = "start"
    /\ feature_csv \in FeatureFiles
    /\ df_original = <<>>
    /\ df_standardized = <<>>
    /\ df_standardized_filtered = <<>>
    /\ solution = 1
    /\ result = Unbound
    /\ results = <<>>
    /\ calls = <<>>
    /\ written = {}
    /\ report = <<>>
    /\ error = None

\* an uncaught exception ends the script
Raise(exception) ==
    /\ opc' = "crashed"
    /\ error' = exception

Failures == Cardinality({k \in DOMAIN calls : ~calls[k].result.success})

\* lines 130-133: process_data, exit() when it returned None
LoadData ==
    /\ opc = "start"
    /\ IF feature_csv.exists
       THEN opc' = "loaded" /\ df_original' = read_csv(feature_csv)
       ELSE opc' = "exit" /\ UNCHANGED df_original
    /\ UNCHANGED <<feature_csv, df_standardized, df_standardized_filtered, solution,
                   result, results, calls, written, report, error>>
    /\ UNCHANGED vars

\* lines 135-149: scale the base columns and write the two scaled tables
Standardize ==
    /\ opc = "loaded"
    /\ IF feature_csv.missing \in base_col
       THEN Raise(<<"KeyError", feature_csv.missing>>) /\ UNCHANGED <<df_standardized, written>>
       ELSE IF df_original = <<>>
       THEN Raise(<<"ValueError", "0 samples">>) /\ UNCHANGED <<df_standardized, written>>
       ELSE /\ opc' = "scaled"
            /\ df_standardized' = normalize_and_standardize_data(df_original)
            /\ written' = written \cup {"padronizado.csv", "normalizado.csv"}
            /\ UNCHANGED error
    /\ UNCHANGED <<feature_csv, df_original, df_standardized_filtered, solution,
                   result, results, calls, report>>
    /\ UNCHANGED vars

\* lines 151-182: filter, then set up the sweep
Filter ==
    /\ opc = "scaled"
    /\ IF feature_csv.missing \in {"Cluster1", "Cluster2"}
       THEN Raise(<<"KeyError", feature_csv.missing>>) /\ UNCHANGED df_standardized_filtered
       ELSE /\ opc' = "sweep"
            /\ df_standardized_filtered' = filter_frames(df_original, df_standardized)
            /\ UNCHANGED error
    /\ solution' = 1
    /\ results' = <<>>
    /\ UNCHANGED <<feature_csv, df_original, df_standardized, result, calls, written, report>>
    /\ UNCHANGED vars

\* lines 183-210: one iteration of the loop over alphas
Solve ==
    /\ opc = "sweep"
    /\ LET alpha == alphas[solution]
           x0 == initial_weights(result)
           data == df_standardized_filtered
       IN \/ /\ AveragingWeightsCancel(data)
             /\ solution = 1
             /\ Raise(<<"ZeroDivisionError", "Weights sum to zero">>)
             /\ UNCHANGED <<solution, result, results, calls>>
          \/ /\ AveragingWeightsCancel(data) => (solution > 1 \/ ~AveragingWeightsAllZero(data))
             /\ \E res \in OptimizeResults(x0, data, alpha) :
                 /\ ~res.success => Failures < MaxFailures
                 /\ result' = res
                 /\ calls' = Append(calls, [x0 |-> x0, data |-> data, alpha |-> alpha, result |-> res])
                 /\ results' = store_result(results, solution, res,
                                            calculate_objective_values(res.x, data))
             /\ solution' = solution + 1
             /\ opc' = IF solution = NumAlphas THEN "baseline" ELSE "sweep"
             /\ UNCHANGED error
    /\ UNCHANGED <<feature_csv, df_original, df_standardized, df_standardized_filtered,
                   written, report>>
    /\ UNCHANGED vars

\* lines 221-235: the entry for uniform weights
Baseline ==
    /\ opc = "baseline"
    /\ opc' = "report"
    /\ results' = store_baseline(results, solution, initial_weights(result),
                                 calculate_objective_values(initial_weights(result),
                                                            df_standardized_filtered))
    /\ UNCHANGED <<feature_csv, df_original, df_standardized, df_standardized_filtered,
                   solution, result, calls, written, report, error>>
    /\ UNCHANGED vars

\* lines 251-270: the final report, on the success of the last solve
Report ==
    /\ opc = "report"
    /\ IF result.success
       THEN LET lines == <<<<"header">>>> \o report_lines(results, 1)
            IN IF lines[Len(lines)][1] = "TypeError"
               THEN /\ report' = SubSeq(lines, 1, Len(lines) - 1)
                    /\ Raise(<<"TypeError", "NoneType is not subscriptable">>)
               ELSE /\ report' = lines
                    /\ opc' = "done"
                    /\ UNCHANGED error
       ELSE /\ report' = <<<<"A otimização falhou.">>, <<"Mensagem de erro:", result.message>>>>
            /\ opc' = "done"
            /\ UNCHANGED error
    /\ UNCHANGED <<feature_csv, df_original, df_standardized, df_standardized_filtered,
                   solution, result, results, calls, written>>
    /\ UNCHANGED vars

NextOpt ==
    \/ LoadData
    \/ Standardize
    \/ Filter
    \/ Solve
    \/ Baseline
    \/ Report

SpecOpt == InitOpt /\ [][NextOpt]_<<vars, ovars>>

\* ------------------------------------------- what the optimizer claims use
\* the averaging weight is the count: num / sqrt(var) = count
IsCount(weight, count) ==
    IF weight[2] = 0 THEN count = 0
    ELSE weight[1] >= 0 /\ weight[1] * weight[1] = count * count * weight[2]

\* row i of the table read passes both filters
Qualifies(i) == df_original[i].Cluster2 # -1 /\ df_original[i].confirmado # 0

\* the rows that pass both filters and are the first of their Cluster1 to
\* do so
Kept ==
    {i \in DOMAIN df_original :
        /\ Qualifies(i)
        /\ \A j \in 1..(i - 1) :
            Qualifies(j) => df_original[j].Cluster1 # df_original[i].Cluster1}

\* the script got past line 157
FilterRan ==
    \/ opc \in {"sweep", "baseline", "report", "done"}
    \/ opc = "crashed" /\ error[1] \in {"ZeroDivisionError", "TypeError"}

PerAlphaFields == {"success", "weights", "objective1", "objective2", "objective_value", "message"}
BaselineFields == {"success", "weights", "objective1", "objective2", "objective_value"}

\* C11: whatever solves fail, the sweep calls the solver once per alpha in
\* grid order and every call leaves one entry under its solution number; the
\* entry of a failed solve has success False and the solver's message; once
\* a solve has been made the loop goes on to the last alpha.
C11_FailuresAreIsolated ==
    /\ Len(results) >= Len(calls)
    /\ Len(calls) <= NumAlphas
    /\ \A k \in DOMAIN calls :
        /\ calls[k].alpha = alphas[k]
        /\ results[k].success = <<"bool", calls[k].result.success>>
        /\ results[k].message = calls[k].result.message
    /\ calls # <<>> =>
        /\ opc \in {"sweep", "baseline", "report", "done", "crashed"}
        /\ opc = "sweep" => (solution = Len(calls) + 1 /\ solution <= NumAlphas)
        /\ opc # "sweep" => Len(calls) = NumAlphas
    /\ opc = "baseline" => Len(results) = NumAlphas

\* the sweep is over, the first solve failed and the last one converged
C11_Witness ==
    /\ opc = "baseline"
    /\ Len(results) = NumAlphas
    /\ ~calls[1].result.success
    /\ results[1].success = <<"bool", FALSE>>
    /\ results[1].message = calls[1].result.message
    /\ calls[NumAlphas].result.success

\* C12: once the twelve entries exist the final report completes; it has a
\* line with the weights and the two objectives of every entry that holds
\* weights (converged solves and the baseline), it names every failed entry
\* as failed, and it has no weights line for a failed entry.
C12_ReportDistinguishesFailures ==
    (Len(results) = NumAlphas + 1 /\ opc \in {"done", "crashed"}) =>
        /\ opc = "done"
        /\ \A k \in DOMAIN results :
            IF results[k].weights # None
            THEN \E n \in DOMAIN report :
                    /\ report[n][1] = "row"
                    /\ report[n] = <<"row", k, results[k].weights,
                                     results[k].objective1, results[k].objective2>>
            ELSE /\ \E n \in DOMAIN report : report[n][1] = "failed" /\ report[n][2] = k
                 /\ \A n \in DOMAIN report : report[n][1] = "row" => report[n][2] # k

\* C13 as stated: twelve records, each per-alpha record with its alpha, a
\* vector of 7 weights, objective1, objective2, a boolean success and the
\* message, and the baseline record with the same fields but alpha.
C13_RecordsAsStated ==
    opc \in {"report", "done"} =>
        /\ Len(results) = NumAlphas + 1
        /\ \A k \in 1..NumAlphas :
            /\ {"alpha", "weights", "objective1", "objective2", "success", "message"}
                   \subseteq DOMAIN results[k]
            /\ results[k].alpha = alphas[k]
            /\ Len(results[k].weights) = num_weights
            /\ results[k].success[1] = "bool"
        /\ LET baseline == results[NumAlphas + 1]
           IN /\ {"weights", "objective1", "objective2", "success", "message"}
                     \subseteq DOMAIN baseline
              /\ "alpha" \notin DOMAIN baseline
              /\ Len(baseline.weights) = num_weights
              /\ baseline.success[1] = "bool"

\* C13 amended: twelve records under the solution numbers 1..12.  Record k
\* of 1..11 belongs to the k-th alpha of the grid and holds success (a
\* boolean), weights (the solver's 7 weights if it converged, None if not),
\* objective1, objective2, objective_value (None if not converged) and
\* message, and no alpha.  Record 12, the baseline, holds success (the
\* string 'True'), the 7 uniform weights, objective1, objective2 and
\* objective_value, and neither message nor alpha.
C13_RecordsAsWritten ==
    opc \in {"report", "done"} =>
        /\ Len(results) = NumAlphas + 1
        /\ \A k \in 1..NumAlphas :
            /\ DOMAIN results[k] = PerAlphaFields
            /\ calls[k].alpha = alphas[k]
            /\ results[k].success = <<"bool", calls[k].result.success>>
            /\ results[k].weights = IF calls[k].result.success THEN calls[k].result.x ELSE None
            /\ calls[k].result.success => Len(results[k].weights) = num_weights
            /\ results[k].objective_value = IF calls[k].result.success THEN calls[k].result.fun ELSE None
            /\ results[k].message = calls[k].result.message
        /\ LET baseline == results[NumAlphas + 1]
           IN /\ DOMAIN baseline = BaselineFields
              /\ baseline.success = <<"str", "True">>
              /\ baseline.weights = [n \in 1..num_weights |-> 1]

\* the twelve records exist, one of a failed solve among them
C13_Witness ==
    /\ opc = "report"
    /\ Len(results) = NumAlphas + 1
    /\ \E k \in 1..NumAlphas : results[k].weights = None
    /\ \E k \in 1..NumAlphas : results[k].weights # None

\* C14: in every recorded f1 the averaging weight of each cluster is its
\* number of dead animals: not negative, positive in total when a cluster
\* has a death, and not smaller for a cluster with more deaths; f2 is the
\* variance of the same alert index.
C14_AveragingWeightsAreDeathCounts ==
    \A k \in DOMAIN results :
        LET f1 == results[k].objective1
            rows == f1[2]
            weights == f1[4]
            deaths == [i \in DOMAIN rows |-> df_original[rows[i] + 1].morto]
        IN /\ \A i \in DOMAIN rows : IsCount(weights[i], deaths[i])
           /\ (\E i \in DOMAIN rows : deaths[i] > 0) =>
                  Sum([i \in DOMAIN rows |-> weights[i][1]]) > 0
           /\ \A i, j \in DOMAIN rows :
                  deaths[i] >= deaths[j] => weights[i][1] >= weights[j][1]
           /\ results[k].objective2 = <<"var", rows, f1[3]>>

\* C15: when the file lacks an expected column the script ends on an error
\* naming it, without a solve and without a file written.
C15_MissingColumnStopsFirst ==
    (feature_csv.exists /\ feature_csv.missing # "none" /\ opc \notin {"start", "loaded"}) =>
        /\ opc = "crashed"
        /\ error = <<"KeyError", feature_csv.missing>>
        /\ calls = <<>>
        /\ written = {}

\* C16: once the filter has run, the filtered table, which is the table of
\* every solve, holds the scaled rows of exactly the rows kept: Cluster2 not
\* -1, original confirmado not 0, first of its Cluster1, in table order.
C16_FilteredTable ==
    FilterRan =>
        LET table == df_standardized_filtered
        IN /\ \A k \in DOMAIN calls : calls[k].data = table
           /\ {table[p].index + 1 : p \in DOMAIN table} = Kept
           /\ \A p \in DOMAIN table :
               /\ table[p] = df_standardized[table[p].index + 1]
               /\ df_original[table[p].index + 1].Cluster2 # -1
               /\ df_original[table[p].index + 1].confirmado # 0
           /\ \A p, q \in DOMAIN table :
               p < q => /\ table[p].index < table[q].index
                        /\ table[p].Cluster1 # table[q].Cluster1

\* a solve was made on a table from which the filter dropped a later row of
\* a kept cluster and a row that does not qualify, the scaled confirmado of
\* the kept row being 0
C16_Witness ==
    /\ calls # <<>>
    /\ \E i \in DOMAIN df_original : ~Qualifies(i)
    /\ \E i \in Kept : \E j \in DOMAIN df_original :
          /\ i < j /\ Qualifies(j)
          /\ df_original[j].Cluster1 = df_original[i].Cluster1
          /\ df_standardized[i].confirmado[1] = 0

\* C17: every solve is called with the uniform vector, the filtered table
\* and the alpha of its place in the grid, and its entry is made from that
\* call's answer alone.
C17_SolvesAreIndependent ==
    \A k \in DOMAIN calls :
        /\ calls[k].x0 = [n \in 1..num_weights |-> 1]
        /\ calls[k].data = df_standardized_filtered
        /\ calls[k].alpha = alphas[k]
        /\ Len(results) >= k
        /\ results[k] = store_result(<<>>, k, calls[k].result,
                                     calculate_objective_values(calls[k].result.x,
                                                                calls[k].data))[1]

\* all solves made, one of them after a solve that returned another vector
\* than the uniform one
C17_Witness ==
    /\ Len(calls) = NumAlphas
    /\ \E k \in 1..(NumAlphas - 1) :
          /\ calls[k].result.success
          /\ calls[k].result.x # calls[k + 1].x0
          /\ calls[k + 1].x0 = [n \in 1..num_weights |-> 1]

=============================================================================
